---- MODULE Spec2Model ----
(***************************************************************************)
(* GraphSense Maltego transforms: request classification, backend lookup,  *)
(* entity projection and error reporting of ToDetails, ToCluster, ToTags.  *)
(*                                                                         *)
(* A Python str is a sequence of tokens.  Addresses and identifiers are    *)
(* sequences of single characters; fixed message fragments and currency    *)
(* codes are single multi-character tokens.  The empty str is <<>>.        *)
(***************************************************************************)
EXTENDS Integers, Sequences, FiniteSets, TLC

\* ------------------------------------------------------------------ bounds
MaxTags == 2

\* ------------------------------------------------------- Python values
None == <<"<None>">>

\* None in a slot that otherwise holds a record (backend object, entity)
NoneRec == [kind |-> "None"]

\* Python truthiness of a str-or-None value: None and "" are falsy
Truthy(v) == v # None /\ v # <<>>

Rep(c, n) == [k \in 1..n |-> c]

\* ------------------------------------------------------ character classes
Digits == {"0", "1", "2", "3", "4", "5", "6", "7", "8", "9"}

Lower == {"a", "b", "c", "d", "e", "f", "g", "h", "i", "j", "k", "l", "m",
          "n", "o", "p", "q", "r", "s", "t", "u", "v", "w", "x", "y", "z"}

Upper == {"A", "B", "C", "D", "E", "F", "G", "H", "I", "J", "K", "L", "M",
          "N", "O", "P", "Q", "R", "S", "T", "U", "V", "W", "X", "Y", "Z"}

\* [a-km-zA-HJ-NP-Z1-9]
Base58 == (Lower \ {"l"}) \cup (Upper \ {"I", "O"}) \cup (Digits \ {"0"})

\* [ac-hj-np-z02-9]
Bech32 == (Lower \ {"b", "i", "o"}) \cup (Digits \ {"1"})

\* [0-9a-zA-Z]
Alnum == Digits \cup Lower \cup Upper

\* [0-9a-fA-F]
Hex == Digits \cup {"a", "b", "c", "d", "e", "f", "A", "B", "C", "D", "E", "F"}

\* \w
WordCh == Alnum \cup {"_"}

\* ------------------------------------------------------- regex primitives
\* n characters of class C starting at position p
AllIn(s, p, n, C) == p + n - 1 <= Len(s) /\ \A k \in p..(p + n - 1) : s[k] \in C

WordAt(s, p) == p \in 1..Len(s) /\ s[p] \in WordCh

\* \b between position p-1 and p
Boundary(s, p) == WordAt(s, p - 1) # WordAt(s, p)

LitAt(s, p, lit) ==
    p + Len(lit) - 1 <= Len(s) /\ \A k \in 1..Len(lit) : s[p + k - 1] = lit[k]

Starts(s) == 1..(Len(s) + 1)

\* \b([13][a-km-zA-HJ-NP-Z1-9]{25,34})|bc(0([..]{39}|[..]{59})|1[..]{8,87})\b
BtcRegex(s) ==
    \/ \E p \in Starts(s) :
         /\ Boundary(s, p)
         /\ AllIn(s, p, 1, {"1", "3"})
         /\ \E n \in 25..34 : AllIn(s, p + 1, n, Base58)
    \/ \E p \in Starts(s) :
         /\ LitAt(s, p, <<"b", "c">>)
         /\ \/ /\ LitAt(s, p + 2, <<"0">>)
               /\ \E n \in {39, 59} :
                    AllIn(s, p + 3, n, Bech32) /\ Boundary(s, p + 3 + n)
            \/ /\ LitAt(s, p + 2, <<"1">>)
               /\ \E n \in 8..87 :
                    AllIn(s, p + 3, n, Bech32) /\ Boundary(s, p + 3 + n)

BchPrefixes ==
    { <<"b", "i", "t", "c", "o", "i", "n", "c", "a", "s", "h", ":">>,
      <<"b", "c", "h", "t", "e", "s", "t", ":">>, <<>> }

\* \b((?:bitcoincash|bchtest):)?([0-9a-zA-Z]{34})\b
BchRegex(s) ==
    \E p \in Starts(s) : \E pre \in BchPrefixes :
        /\ Boundary(s, p)
        /\ LitAt(s, p, pre)
        /\ AllIn(s, p + Len(pre), 34, Alnum)
        /\ Boundary(s, p + Len(pre) + 34)

\* \b[LM3][a-km-zA-HJ-NP-Z1-9]{25,33}\b
LtcRegex(s) ==
    \E p \in Starts(s) :
        /\ Boundary(s, p)
        /\ AllIn(s, p, 1, {"L", "M", "3"})
        /\ \E n \in 25..33 : AllIn(s, p + 1, n, Base58) /\ Boundary(s, p + 1 + n)

\* \b[tz][13][a-km-zA-HJ-NP-Z1-9]{33}\b
ZecRegex(s) ==
    \E p \in Starts(s) :
        /\ Boundary(s, p)
        /\ AllIn(s, p, 1, {"t", "z"})
        /\ AllIn(s, p + 1, 1, {"1", "3"})
        /\ AllIn(s, p + 2, 33, Base58)
        /\ Boundary(s, p + 35)

\* \b(0x)?[0-9a-fA-F]{40}\b
EthRegex(s) ==
    \E p \in Starts(s) : \E pre \in {<<"0", "x">>, <<>>} :
        /\ Boundary(s, p)
        /\ LitAt(s, p, pre)
        /\ AllIn(s, p + Len(pre), 40, Hex)
        /\ Boundary(s, p + Len(pre) + 40)

\* ------------------------------------------------------ Currency Detector
Opt(b, c) == IF b THEN <<c>> ELSE <<>>

get_currency(address) ==
    LET currencies == Opt(BtcRegex(address), <<"btc">>)
                      \o Opt(BchRegex(address), <<"bch">>)
                      \o Opt(LtcRegex(address), <<"ltc">>)
                      \o Opt(ZecRegex(address), <<"zec">>)
                      \o Opt(EthRegex(address), <<"eth">>)
    IN  IF currencies = <<>>
        THEN <<(<<>>), <<"Currency not supported">>>>
        ELSE <<currencies, (<<>>)>>

\* dict.get(key): the value, or None when the key is absent
Get(d, key) == IF key \in DOMAIN d THEN d[key] ELSE None

MarkerKeys ==
    << <<"BTCAddress", <<"btc">>>>, <<"BCHAddress", <<"bch">>>>,
       <<"LTCAddress", <<"ltc">>>>, <<"ZECAddress", <<"zec">>>>,
       <<"ETHAddress", <<"eth">>>> >>

\* variant: the last marker key present wins
get_currency_from_entity_details_LastMarker(entity_details) ==
    LET hits == {k \in 1..Len(MarkerKeys) : MarkerKeys[k][1] \in DOMAIN entity_details}
        address == Get(entity_details, "properties.cryptocurrencyaddress")
    IN  IF hits # {}
        THEN LET last == CHOOSE k \in hits : \A j \in hits : k >= j
             IN  << <<MarkerKeys[last][2]>>, (<<>>) >>
        ELSE IF Truthy(address)
             THEN get_currency(address)
             ELSE <<(<<>>), <<"No address or currency found in entity details">>>>

get_currency_from_entity_details(entity_details) ==
    LET hits == {k \in 1..Len(MarkerKeys) : MarkerKeys[k][1] \in DOMAIN entity_details}
        address == Get(entity_details, "properties.cryptocurrencyaddress")
    IN  IF hits # {}
        THEN LET first == CHOOSE k \in hits : \A j \in hits : k <= j
             IN  << <<MarkerKeys[first][2]>>, (<<>>) >>
        ELSE IF Truthy(address)
             THEN get_currency(address)
             ELSE <<(<<>>), <<"No address or currency found in entity details">>>>

\* ------------------------------------------------------------ int and str
DigitChars == <<"0", "1", "2", "3", "4", "5", "6", "7", "8", "9">>

DigitVal(c) == (CHOOSE d \in 1..10 : DigitChars[d] = c) - 1

RECURSIVE LStrip(_)
LStrip(s) == IF s # <<>> /\ Head(s) = " " THEN LStrip(Tail(s)) ELSE s

RECURSIVE RStrip(_)
RStrip(s) ==
    IF s # <<>> /\ s[Len(s)] = " " THEN RStrip(SubSeq(s, 1, Len(s) - 1)) ELSE s

\* digits, with single underscores allowed between digits
IsDigitBody(b) ==
    /\ b # <<>>
    /\ \A k \in 1..Len(b) :
         \/ b[k] \in Digits
         \/ b[k] = "_" /\ k > 1 /\ k < Len(b)
                       /\ b[k - 1] \in Digits /\ b[k + 1] \in Digits

RECURSIVE DigitsValue(_, _)
DigitsValue(b, acc) ==
    IF b = <<>> THEN acc
    ELSE IF Head(b) = "_" THEN DigitsValue(Tail(b), acc)
    ELSE DigitsValue(Tail(b), 10 * acc + DigitVal(Head(b)))

\* int(val): [ok |-> FALSE] stands for ValueError / TypeError
ParseInt(val) ==
    IF val = None THEN [ok |-> FALSE, n |-> 0]
    ELSE LET t == RStrip(LStrip(val))
             signed == t # <<>> /\ Head(t) \in {"+", "-"}
             body == IF signed THEN Tail(t) ELSE t
         IN  IF IsDigitBody(body)
             THEN [ok |-> TRUE,
                   n |-> IF signed /\ Head(t) = "-"
                         THEN 0 - DigitsValue(body, 0)
                         ELSE DigitsValue(body, 0)]
             ELSE [ok |-> FALSE, n |-> 0]

RECURSIVE NatToStr(_)
NatToStr(n) ==
    IF n < 10 THEN <<DigitChars[n + 1]>>
    ELSE NatToStr(n \div 10) \o <<DigitChars[(n % 10) + 1]>>

\* str(n) for an int
IntToStr(n) == IF n < 0 THEN <<"-">> \o NatToStr(0 - n) ELSE NatToStr(n)

\* ----------------------------------------------------- Request Classifier
\* Python "a or b"
PyOr(a, b) == IF Truthy(a) THEN a ELSE b

\* variant: an address property takes precedence over the wallet keys
has_wallet_key_AddressFirst(properties) ==
    /\ "properties.cryptocurrencyaddress" \notin DOMAIN properties
    /\ "cryptocurrency.wallet.name" \in DOMAIN properties
           \/ "cluster_ID" \in DOMAIN properties

has_wallet_key(properties) ==
    "cryptocurrency.wallet.name" \in DOMAIN properties
        \/ "cluster_ID" \in DOMAIN properties

\* the wallet/cluster branch; returns <<address, currencies, error>>
classify_wallet(properties) ==
    LET val == PyOr(Get(properties, "cryptocurrency.wallet.name"),
                    Get(properties, "cluster_ID"))
        parsed == ParseInt(val)
        currency == Get(properties, "currency")
    IN  IF ~parsed.ok
        THEN <<None, (<<>>),
               <<"Invalid Cluster/Wallet ID format (expected integer)">>>>
        ELSE IF ~Truthy(currency)
        THEN <<None, (<<>>), <<"Cluster found but currency is missing">>>>
        ELSE <<IntToStr(parsed.n), <<currency>>, None>>

\* variant: an empty currency property falls through to detection
classify_address_TruthyCurrency(properties) ==
    LET address == Get(properties, "properties.cryptocurrencyaddress")
    IN  IF ~Truthy(address)
        THEN <<None, (<<>>),
               <<"No cryptocurrency address found in properties">>>>
        ELSE IF Truthy(Get(properties, "currency"))
        THEN <<address, <<properties["currency"]>>, None>>
        ELSE LET det == get_currency_from_entity_details(properties)
             IN  IF Truthy(det[2])
                 THEN <<address, (<<>>), det[2]>>
                 ELSE <<address, det[1], None>>

\* the standard-address branch; returns <<address, currencies, error>>
classify_address(properties) ==
    LET address == Get(properties, "properties.cryptocurrencyaddress")
    IN  IF ~Truthy(address)
        THEN <<None, (<<>>),
               <<"No cryptocurrency address found in properties">>>>
        ELSE IF "currency" \in DOMAIN properties
        THEN <<address, <<properties["currency"]>>, None>>
        ELSE LET det == get_currency_from_entity_details(properties)
             IN  IF Truthy(det[2])
                 THEN <<address, (<<>>), det[2]>>
                 ELSE <<address, det[1], None>>

\* returns <<address, currencies, error>>
extract_address_and_currencies(properties) ==
    IF has_wallet_key(properties)
    THEN classify_wallet(properties)
    ELSE classify_address(properties)

\* ------------------------------------------------------------- host sink
UIM_PARTIAL == "PartialError"

UIM_INFORM == "Inform"

EmptyResponse == [entities |-> <<>>, messages |-> <<>>]

addUIMessage(response, msg, type) ==
    [response EXCEPT !.messages = Append(@, [msg |-> msg, type |-> type])]

NewEntity(type, value) ==
    [type |-> type, value |-> value, linkLabel |-> None, iconURL |-> None,
     props |-> <<>>, overlays |-> <<>>]

addEntity(response, entity) ==
    [response EXCEPT !.entities = Append(@, entity)]

addProperty(entity, name, value) ==
    [entity EXCEPT !.props = Append(@, <<name, value>>)]

addOverlay(entity, content, position) ==
    [entity EXCEPT !.overlays = Append(@, <<content, position>>)]

\* ------------------------------------------------------- Error Classifier
\* Python "needle in error" for a needle that is one token
Contains(error, needle) == \E k \in 1..Len(error) : error[k] = needle

\* variant: the not-found rule is tested before the gateway-timeout rule
ErrorMessage_NotFoundFirst(currency, query_type, address, error) ==
    IF Contains(error, "(404)")
    THEN <<"\nNothing found in ">> \o currency \o <<" for: ">> \o address
            \o <<"\n">>
    ELSE IF Contains(error, "504 Bad Gateway")
    THEN <<"\nGraphSense server 504 error during ">> \o query_type
            \o <<" for ">> \o currency \o <<" on ">> \o address \o <<"\n">>
    ELSE <<"Error (">> \o currency \o <<"): ">> \o error

ErrorMessage(currency, query_type, address, error) ==
    IF Contains(error, "504 Bad Gateway")
    THEN <<"\nGraphSense server 504 error during ">> \o query_type
            \o <<" for ">> \o currency \o <<" on ">> \o address \o <<"\n">>
    ELSE IF Contains(error, "(404)")
    THEN <<"\nNothing found in ">> \o currency \o <<" for: ">> \o address
            \o <<"\n">>
    ELSE <<"Error (">> \o currency \o <<"): ">> \o error

\* variant: the message is added in the generic branch only
set_maltego_transformation_error_ElseOnly(responseMaltego, currency, query_type, address, error) ==
    IF Contains(error, "504 Bad Gateway") \/ Contains(error, "(404)")
    THEN responseMaltego
    ELSE addUIMessage(responseMaltego,
                      ErrorMessage(currency, query_type, address, error),
                      UIM_PARTIAL)

set_maltego_transformation_error(responseMaltego, currency, query_type, address, error) ==
    addUIMessage(responseMaltego,
                 ErrorMessage(currency, query_type, address, error),
                 UIM_PARTIAL)

\* -------------------------------------------------------- Entity Projector
CurrencyCodes == {<<"btc">>, <<"bch">>, <<"ltc">>, <<"zec">>, <<"eth">>}

\* "type" is split after its 8-character prefix "maltego."
CURRENCY_CONFIG ==
    [c \in CurrencyCodes |->
        [type |-> <<"maltego.">> \o
                  (CASE c = <<"btc">> -> <<"BTCAddress">>
                     [] c = <<"bch">> -> <<"BCHAddress">>
                     [] c = <<"ltc">> -> <<"LTCAddress">>
                     [] c = <<"zec">> -> <<"ZECAddress">>
                     [] c = <<"eth">> -> <<"ETHAddress">>)]]

hasattr(obj, name) == obj.kind = "obj" /\ name \in DOMAIN obj.attrs

isinstance_list(obj) == obj.kind = "list"

\* variant: the details branch looks at address_tags only
details_has_tags_AddressOnly(tags_obj) ==
    IF hasattr(tags_obj, "address_tags") /\ tags_obj.attrs["address_tags"] # <<>>
    THEN TRUE
    ELSE FALSE

\* the "tagged" test of the details branch
details_has_tags(tags_obj) ==
    IF hasattr(tags_obj, "address_tags") /\ tags_obj.attrs["address_tags"] # <<>>
    THEN TRUE
    ELSE IF hasattr(tags_obj, "entity_tags") /\ tags_obj.attrs["entity_tags"] # <<>>
    THEN TRUE
    ELSE FALSE

\* the "tagged" test of the cluster branch
cluster_has_tags(tags_obj) ==
    \/ hasattr(tags_obj, "address_tags") /\ tags_obj.attrs["address_tags"] # <<>>
    \/ hasattr(tags_obj, "entity_tags") /\ tags_obj.attrs["entity_tags"] # <<>>

Tagged(entity, has_tags) ==
    IF has_tags THEN addOverlay(entity, <<"Businessman">>, "NORTH_WEST") ELSE entity

details_entity(obj, tags_obj, currency, conf) ==
    LET is_cluster == obj.kind # "address"
        base == IF is_cluster
                THEN addProperty(NewEntity(<<"maltego.CryptocurrencyWallet">>,
                                           IntToStr(obj.entity)),
                                 "num_addresses", obj.no_addresses)
                ELSE addProperty(addProperty(NewEntity(conf.type, obj.address),
                                             "currency", currency),
                                 "cluster_ID", obj.entity)
    IN  Tagged(base, details_has_tags(tags_obj))

cluster_entity(obj, tags_obj, currency, conf) ==
    LET e0 == NewEntity(<<"maltego.CryptocurrencyWallet">>, IntToStr(obj.entity))
        e1 == [e0 EXCEPT !.linkLabel =
                  <<"To Cluster [GraphSense] (">> \o currency \o <<")">>]
        e2 == addProperty(e1, "cryptocurrency.wallet.name", IntToStr(obj.entity))
        e3 == addProperty(e2, "cluster_ID", IntToStr(obj.entity))
        e4 == addProperty(e3, "currency", currency)
        e5 == addProperty(e4, "Number_addresses", obj.no_addresses)
        e6 == addOverlay(e5, obj.no_addresses, "SOUTH_WEST")
        icon == Tail(conf.type)
        icon_name == IF icon = <<"ZECAddress">>
                     THEN <<"zcash_icon_fullcolor">> ELSE icon
        e7 == addOverlay(e6, icon_name, "WEST")
    IN  Tagged(e7, cluster_has_tags(tags_obj))

\* the tag list the tags branch iterates
extract_tags(tags_obj) ==
    IF hasattr(tags_obj, "address_tags") THEN tags_obj.attrs["address_tags"]
    ELSE IF hasattr(tags_obj, "entity_tags") THEN tags_obj.attrs["entity_tags"]
    ELSE IF isinstance_list(tags_obj) THEN tags_obj.items
    ELSE <<>>

tag_entity(tag, currency) ==
    LET e0 == IF Truthy(tag.label)
              THEN NewEntity(<<"maltego.CryptocurrencyOwner">>, tag.label)
              ELSE [NewEntity(<<"maltego.CryptocurrencyOwner">>,
                              <<"Undisclosed, contact: ">> \o tag.tagpack_creator)
                      EXCEPT !.iconURL = <<"Unknown">>]
        e1 == [e0 EXCEPT !.linkLabel =
                  <<"To tags [GraphSense] (">> \o currency \o <<")">>]
    IN  IF tag.tagpack_creator # None
        THEN addProperty(e1, "tagpack_creator", tag.tagpack_creator)
        ELSE e1

RECURSIVE add_tag_entities(_, _, _)
add_tag_entities(response, tags, currency) ==
    IF tags = <<>> THEN response
    ELSE add_tag_entities(addEntity(response, tag_entity(Head(tags), currency)),
                          Tail(tags), currency)

\* api_result is <<obj, tags_obj, error>>;
\* returns [entity, error] and the response after the call
create_entity_with_details(api_result, currency, query_type, response) ==
    LET obj == api_result[1]
        tags_obj == api_result[2]
        error == api_result[3]
    IN  IF Truthy(error)
        THEN [entity |-> NoneRec, error |-> error, response |-> response]
        ELSE IF currency \notin DOMAIN CURRENCY_CONFIG
        THEN [entity |-> NoneRec,
              error |-> <<"Unsupported currency: ">> \o currency,
              response |-> response]
        ELSE IF query_type = <<"details">>
        THEN LET entity == details_entity(obj, tags_obj, currency,
                                          CURRENCY_CONFIG[currency])
             IN  [entity |-> entity, error |-> <<>>,
                  response |-> addEntity(response, entity)]
        ELSE IF query_type = <<"cluster">>
        THEN LET entity == cluster_entity(obj, tags_obj, currency,
                                          CURRENCY_CONFIG[currency])
             IN  [entity |-> entity, error |-> <<>>,
                  response |-> addEntity(response, entity)]
        ELSE IF query_type \in {<<"tags">>, <<"entity_tags">>}
        THEN LET tags == extract_tags(tags_obj)
             IN  IF tags = <<>>
                 THEN [entity |-> NoneRec,
                       error |-> <<"No attribution tags found for this query in ">>
                                 \o currency,
                       response |-> response]
                 ELSE [entity |-> NoneRec, error |-> <<>>,
                       response |-> add_tag_entities(response, tags, currency)]
        ELSE [entity |-> NoneRec,
              error |-> <<"Unknown query type: ">> \o query_type,
              response |-> response]

\* ------------------------------------------------------- request inputs
\* an optional dict entry: <<>> is "key absent", <<v>> is "key present with v"
OptVals(S) == {<<>>} \cup {<<v>> : v \in S}

Entry(key, o) == IF o = <<>> THEN <<>> ELSE key :> o[1]

IdValues == {<<>>, <<"1", "2">>, <<"-", "3">>, <<"0", "7">>, <<"a">>}

CurrencyValues == {<<>>, <<"btc">>, <<"doge">>}

EthAddr == <<"0", "x">> \o Rep("a", 40)

MultiAddr == <<"3">> \o Rep("B", 33)

AddressValues == {<<>>, EthAddr, MultiAddr, <<"x", "y", "z">>}

MarkerSets == {{}, {"BTCAddress"}, {"ZECAddress", "ETHAddress"}}

Markers(m) == [k \in m |-> <<"true">>]

RequestProperties ==
    { Entry("cryptocurrency.wallet.name", w) @@ Entry("cluster_ID", c)
        @@ Entry("currency", cur) @@ Entry("properties.cryptocurrencyaddress", a)
        @@ Markers(m) :
        w \in OptVals(IdValues), c \in OptVals(IdValues),
        cur \in OptVals(CurrencyValues), a \in OptVals(AddressValues),
        m \in MarkerSets }

Transforms == {"ToDetails", "ToCluster", "ToTags"}

\* ------------------------------------------------------- backend outcomes
TagA == [label |-> <<"Exchange">>, tagpack_creator |-> <<"alice">>]

TagB == [label |-> None, tagpack_creator |-> <<"bob">>]

\* the tag list of length n
TagList(n) == [k \in 1..n |-> IF k % 2 = 1 THEN TagA ELSE TagB]

TagLists == {TagList(n) : n \in 0..MaxTags}

AttrSets == {{}, {"address_tags"}, {"entity_tags"}, {"address_tags", "entity_tags"}}

TagCollections ==
    UNION {[kind : {"obj"}, attrs : [as -> TagLists]] : as \in AttrSets}
        \cup [kind : {"list"}, items : TagLists]

ApiFaults ==
    { <<"(504)", "504 Bad Gateway">>, <<"(404)", "Not Found">>,
      <<"(404)", "504 Bad Gateway">>, <<"(500)">> }

OtherFaults == { <<"timed out">> }

ClusterIds == {17}

AddressCounts == {4}

\* ---------------------------------------------------------------- state
VARIABLES transform, Properties, config, pc, address, currencies, error, i,
          response, call, api_result, lookups, errs, notices

vars == <<transform, Properties, config, pc, address, currencies, error, i,
          response, call, api_result, lookups, errs, notices>>

NoCall == [fn |-> "none", conn |-> "none", log |-> <<>>, obj |-> NoneRec]

NoResult == <<NoneRec, [kind |-> "list", items |-> <<>>], (<<>>)>>

Init ==
    /\ transform \in Transforms
    /\ Properties \in RequestProperties
    /\ config = "unloaded"
    /\ pc = "classify"
    /\ address = None
    /\ currencies = <<>>
    /\ error = None
    /\ i = 1
    /\ response = EmptyResponse
    /\ call = NoCall
    /\ api_result = NoResult
    /\ lookups = <<>>
    /\ errs = <<>>
    /\ notices = <<>>

is_wallet ==
    "cryptocurrency.wallet.name" \in DOMAIN Properties
        \/ "cluster_ID" \in DOMAIN Properties

query_type ==
    CASE transform = "ToDetails" -> <<"details">>
      [] transform = "ToCluster" -> <<"cluster">>
      [] transform = "ToTags" -> IF is_wallet THEN <<"entity_tags">> ELSE <<"tags">>

lookup_fn ==
    IF transform \in {"ToDetails", "ToTags"} /\ is_wallet
    THEN "get_entity_details" ELSE "get_address_details"

\* the identifier argument of the lookup: int(address) for an entity lookup
lookup_id ==
    IF lookup_fn = "get_entity_details" THEN ParseInt(address).n ELSE address

fault_prefix ==
    IF lookup_fn = "get_entity_details"
    THEN <<"GraphSense API error (Entity): ">>
    ELSE <<"GraphSense API error (Address): ">>

\* variant: the classifier error is reported as a partial notice
Classify_PartialNotice ==
    /\ pc = "classify"
    /\ LET r == extract_address_and_currencies(Properties)
       IN  /\ address' = r[1]
           /\ currencies' = r[2]
           /\ error' = r[3]
           /\ IF Truthy(r[3])
              THEN /\ response' = addUIMessage(response, r[3], UIM_PARTIAL)
                   /\ notices' = Append(notices, 0)
                   /\ pc' = "done"
              ELSE /\ UNCHANGED <<response, notices>>
                   /\ pc' = IF r[2] = <<>> THEN "done" ELSE "open"
    /\ UNCHANGED <<transform, Properties, config, i, call, api_result,
                   lookups, errs>>

\* create_entities up to the loop: classify, report a classifier error
Classify ==
    /\ pc = "classify"
    /\ LET r == extract_address_and_currencies(Properties)
       IN  /\ address' = r[1]
           /\ currencies' = r[2]
           /\ error' = r[3]
           /\ IF Truthy(r[3])
              THEN /\ response' = addUIMessage(response, r[3], UIM_INFORM)
                   /\ notices' = Append(notices, 0)
                   /\ pc' = "done"
              ELSE /\ UNCHANGED <<response, notices>>
                   /\ pc' = IF r[2] = <<>> THEN "done" ELSE "open"
    /\ UNCHANGED <<transform, Properties, config, i, call, api_result,
                   lookups, errs>>

\* the exit of a lookup with an exception caught by "except"
Failed(msg) ==
    /\ api_result' = <<NoneRec, [kind |-> "list", items |-> <<>>], msg>>
    /\ errs' = Append(errs, [cand |-> i, error |-> msg])
    /\ pc' = "dispatch"

\* get_*_details up to "with client.get_api_client()"
OpenClient ==
    /\ pc = "open"
    /\ lookups' = Append(lookups, [fn |-> lookup_fn, currency |-> currencies[i],
                                   id |-> lookup_id, cand |-> i])
    /\ \/ /\ config' = "loaded"
          /\ call' = [fn |-> lookup_fn, conn |-> "open", log |-> <<>>, obj |-> NoneRec]
          /\ pc' = "primary"
          /\ UNCHANGED <<api_result, errs>>
       \/ /\ config = "unloaded"
          /\ \E d \in OtherFaults :
               Failed(<<"Unexpected error: ">> \o d)
          /\ call' = [fn |-> lookup_fn, conn |-> "none", log |-> <<>>, obj |-> NoneRec]
          /\ UNCHANGED config
    /\ UNCHANGED <<transform, Properties, address, currencies, error, i,
                   response, notices>>

primary_op == IF call.fn = "get_entity_details" THEN "get_entity" ELSE "get_address"

tags_op ==
    IF call.fn = "get_entity_details"
    THEN "list_address_tags_by_entity" ELSE "list_tags_by_address"

Issue(op) == Append(call.log, [op |-> op, currency |-> currencies[i], id |-> lookup_id])

primary_record(a, n) ==
    IF call.fn = "get_entity_details"
    THEN [kind |-> "entity", entity |-> lookup_id, no_addresses |-> n]
    ELSE [kind |-> "address", address |-> lookup_id, entity |-> a, no_addresses |-> n]

\* api.get_address / api.get_entity
PrimaryCall ==
    /\ pc = "primary"
    /\ \/ /\ \E a \in ClusterIds, n \in AddressCounts :
               call' = [call EXCEPT !.log = Issue(primary_op),
                                    !.obj = primary_record(a, n)]
          /\ pc' = "tags"
          /\ UNCHANGED <<api_result, errs>>
       \/ /\ \E d \in ApiFaults : Failed(fault_prefix \o d)
          /\ call' = [call EXCEPT !.log = Issue(primary_op), !.conn = "closed"]
       \/ /\ \E d \in OtherFaults : Failed(<<"Unexpected error: ">> \o d)
          /\ call' = [call EXCEPT !.log = Issue(primary_op), !.conn = "closed"]
    /\ UNCHANGED <<transform, Properties, config, address, currencies, error, i,
                   response, lookups, notices>>

\* variant: a fault of the tag call leaves the connection open
TagCall_LeakOnFault ==
    /\ pc = "tags"
    /\ \/ /\ \E tags \in TagCollections : api_result' = <<call.obj, tags, (<<>>)>>
          /\ call' = [call EXCEPT !.log = Issue(tags_op), !.conn = "closed"]
          /\ pc' = "dispatch"
          /\ UNCHANGED errs
       \/ /\ \E d \in ApiFaults : Failed(fault_prefix \o d)
          /\ call' = [call EXCEPT !.log = Issue(tags_op)]
       \/ /\ \E d \in OtherFaults : Failed(<<"Unexpected error: ">> \o d)
          /\ call' = [call EXCEPT !.log = Issue(tags_op)]
    /\ UNCHANGED <<transform, Properties, config, address, currencies, error, i,
                   response, lookups, notices>>

\* api.list_tags_by_address / api.list_address_tags_by_entity, and the return
TagCall ==
    /\ pc = "tags"
    /\ call' = [call EXCEPT !.log = Issue(tags_op), !.conn = "closed"]
    /\ \/ /\ \E tags \in TagCollections : api_result' = <<call.obj, tags, (<<>>)>>
          /\ pc' = "dispatch"
          /\ UNCHANGED errs
       \/ \E d \in ApiFaults : Failed(fault_prefix \o d)
       \/ \E d \in OtherFaults : Failed(<<"Unexpected error: ">> \o d)
    /\ UNCHANGED <<transform, Properties, config, address, currencies, error, i,
                   response, lookups, notices>>

\* variant: the loop is left after the first reported error
HandleResult_StopOnError ==
    /\ pc = "dispatch"
    /\ LET currency == currencies[i]
           api_error == api_result[3]
           r == create_entity_with_details(<<api_result[1], api_result[2], (<<>>)>>,
                                           currency, query_type, response)
           failed == Truthy(api_error) \/ Truthy(r.error)
       IN  /\ IF Truthy(api_error)
              THEN /\ response' = set_maltego_transformation_error(
                                      response, currency, query_type, address, api_error)
                   /\ notices' = Append(notices, i)
                   /\ UNCHANGED errs
              ELSE /\ errs' = IF r.error # <<>>
                              THEN Append(errs, [cand |-> i, error |-> r.error])
                              ELSE errs
                   /\ IF Truthy(r.error)
                      THEN /\ response' = set_maltego_transformation_error(
                                      r.response, currency, query_type, address, r.error)
                           /\ notices' = Append(notices, i)
                      ELSE /\ response' = r.response
                           /\ UNCHANGED notices
           /\ pc' = IF failed \/ i + 1 > Len(currencies) THEN "done" ELSE "open"
    /\ i' = i + 1
    /\ UNCHANGED <<transform, Properties, config, address, currencies, error,
                   call, api_result, lookups>>

\* the loop body after the lookup returned
HandleResult ==
    /\ pc = "dispatch"
    /\ LET currency == currencies[i]
           api_error == api_result[3]
           r == create_entity_with_details(<<api_result[1], api_result[2], (<<>>)>>,
                                           currency, query_type, response)
       IN  IF Truthy(api_error)
           THEN /\ response' = set_maltego_transformation_error(
                                   response, currency, query_type, address, api_error)
                /\ notices' = Append(notices, i)
                /\ UNCHANGED errs
           ELSE /\ errs' = IF r.error # <<>>
                           THEN Append(errs, [cand |-> i, error |-> r.error])
                           ELSE errs
                /\ IF Truthy(r.error)
                   THEN /\ response' = set_maltego_transformation_error(
                                   r.response, currency, query_type, address, r.error)
                        /\ notices' = Append(notices, i)
                   ELSE /\ response' = r.response
                        /\ UNCHANGED notices
    /\ i' = i + 1
    /\ pc' = IF i + 1 > Len(currencies) THEN "done" ELSE "open"
    /\ UNCHANGED <<transform, Properties, config, address, currencies, error,
                   call, api_result, lookups>>

Next == Classify \/ OpenClient \/ PrimaryCall \/ TagCall \/ HandleResult

Spec == Init /\ [][Next]_vars

\* ================================================================ claims
Count(log, k) == Cardinality({j \in 1..Len(log) : log[j].cand = k})

NoticeCount(k) == Cardinality({j \in 1..Len(notices) : notices[j] = k})

\* candidate k has been fully processed by the loop
Handled(k) == pc = "done" \/ k < i

Classified == pc # "classify"

\* C1: every error produced for a currency candidate (by the lookup or by the
\* projector, the zero-tags error included) is reported by exactly one UI
\* message for that candidate: no message without an error, never two, and
\* once the candidate is processed never zero.
C1_ErrorReportedOnce ==
    /\ Len(response.messages) = Len(notices)
    /\ \A k \in 1..Len(currencies) :
         /\ Count(errs, k) <= 1
         /\ NoticeCount(k) <= Count(errs, k)
         /\ Handled(k) => NoticeCount(k) = Count(errs, k)

C1_Witness ==
    /\ pc = "done"
    /\ Len(currencies) = 3
    /\ Count(errs, 1) = 1 /\ Count(errs, 2) = 0 /\ Count(errs, 3) = 1
    /\ \E j \in 1..Len(errs) :
         Head(errs[j].error) = "No attribution tags found for this query in "
    /\ \E j \in 1..Len(errs) :
         Head(errs[j].error) = "GraphSense API error (Address): "

\* C2: after an error-free classification the lookups issued so far are one
\* per candidate, in list order, and the run ends only when every candidate
\* of the list had its lookup, whatever failed on earlier candidates.
C2_OneLookupPerCandidate ==
    (Classified /\ ~Truthy(error)) =>
        /\ Len(lookups) = (IF pc = "done" THEN Len(currencies)
                           ELSE IF pc = "open" THEN i - 1 ELSE i)
        /\ \A k \in 1..Len(lookups) :
             lookups[k].cand = k /\ lookups[k].currency = currencies[k]

C2_Witness ==
    /\ pc = "done"
    /\ Len(currencies) = 3
    /\ Len(lookups) = 3
    /\ Count(errs, 1) = 1 /\ Count(errs, 2) = 1

\* C3: when the classifier returns an error the transform issues no backend
\* call, adds no entity, emits exactly one informational notice carrying
\* that error, and stops.
C3_ClassifierErrorStops ==
    (Classified /\ Truthy(error)) =>
        /\ pc = "done"
        /\ lookups = <<>>
        /\ call = NoCall
        /\ response.entities = <<>>
        /\ response.messages = <<[msg |-> error, type |-> UIM_INFORM]>>

C3_Witness ==
    /\ pc = "done"
    /\ error = <<"Currency not supported">>
    /\ Len(response.messages) = 1

\* ------------------------------------------------- classifier claims
WalletKeys == {"cryptocurrency.wallet.name", "cluster_ID"}

AddressKey == "properties.cryptocurrencyaddress"

HasWalletProperty == WalletKeys \cap DOMAIN Properties # {}

Result == <<address, currencies, error>>

InvalidIdError == <<"Invalid Cluster/Wallet ID format (expected integer)">>

MissingCurrencyError == <<"Cluster found but currency is missing">>

\* the outcome the wallet/cluster rule prescribes for identifier value v,
\* where "missing" says whether the currency counts as not given
WalletOutcome(v, missing) ==
    IF ~ParseInt(v).ok THEN error = InvalidIdError
    ELSE IF missing THEN error = MissingCurrencyError
    ELSE /\ error = None
         /\ address = IntToStr(ParseInt(v).n)
         /\ currencies = <<Properties["currency"]>>

AddressNotIdentifier ==
    AddressKey \in DOMAIN Properties => address # Properties[AddressKey]

\* C4 as stated: with a wallet/cluster property present the result follows
\* from that property alone: invalid-format error if its value is not an
\* integer, else currency-missing error if no currency property is present,
\* else (stringified integer, [currency], no error); the address property
\* is never the identifier.
C4_AsStated ==
    (Classified /\ HasWalletProperty) =>
        /\ \E key \in WalletKeys \cap DOMAIN Properties :
             WalletOutcome(Properties[key], "currency" \notin DOMAIN Properties)
        /\ AddressNotIdentifier

\* C4 amended: as C4, with the currency-missing error returned when the
\* currency property is absent or its value is empty.
C4_WalletPrecedence ==
    (Classified /\ HasWalletProperty) =>
        /\ \E key \in WalletKeys \cap DOMAIN Properties :
             WalletOutcome(Properties[key],
                           "currency" \notin DOMAIN Properties
                               \/ Properties["currency"] = <<>>)
        /\ AddressNotIdentifier

C4_Witness ==
    /\ Classified
    /\ "cluster_ID" \in DOMAIN Properties
    /\ AddressKey \in DOMAIN Properties /\ Properties[AddressKey] = EthAddr
    /\ "BTCAddress" \in DOMAIN Properties
    /\ Properties["cluster_ID"] = <<"0", "7">>
    /\ Result = << <<"7">>, << <<"btc">> >>, None >>

\* C5 as stated: without a wallet/cluster property, a request carrying an
\* address property and a currency property is classified as (address,
\* [currency value verbatim], no error), whatever the address looks like and
\* whatever marker keys are present.
C5_AsStated ==
    (Classified /\ ~HasWalletProperty
        /\ AddressKey \in DOMAIN Properties /\ "currency" \in DOMAIN Properties) =>
        Result = <<Properties[AddressKey], <<Properties["currency"]>>, None>>

\* C5 amended: as C5, for an address property whose value is not empty.
C5_ExplicitCurrency ==
    (Classified /\ ~HasWalletProperty
        /\ AddressKey \in DOMAIN Properties /\ Properties[AddressKey] # <<>>
        /\ "currency" \in DOMAIN Properties) =>
        Result = <<Properties[AddressKey], <<Properties["currency"]>>, None>>

C5_Witness ==
    /\ Classified
    /\ ~HasWalletProperty
    /\ AddressKey \in DOMAIN Properties /\ Properties[AddressKey] = <<"x", "y", "z">>
    /\ "ZECAddress" \in DOMAIN Properties
    /\ "currency" \in DOMAIN Properties /\ Properties["currency"] = <<>>
    /\ Result = << <<"x", "y", "z">>, << <<>> >>, None >>

\* the classifier result that propagates detector result d for address a
Propagates(a, d) ==
    /\ address = a
    /\ currencies = d[1]
    /\ IF d[2] # <<>> THEN error = d[2] ELSE error = None

\* C6 as stated: without wallet/cluster and currency properties, a request
\* with an address property is classified as the address together with the
\* candidate list and error of the pattern detector for that address,
\* whatever other keys are present.
C6_AsStated ==
    (Classified /\ ~HasWalletProperty /\ "currency" \notin DOMAIN Properties
        /\ AddressKey \in DOMAIN Properties) =>
        Propagates(Properties[AddressKey], get_currency(Properties[AddressKey]))

MarkerOrder == <<"BTCAddress", "BCHAddress", "LTCAddress", "ZECAddress", "ETHAddress">>

MarkerCurrency ==
    [BTCAddress |-> <<"btc">>, BCHAddress |-> <<"bch">>, LTCAddress |-> <<"ltc">>,
     ZECAddress |-> <<"zec">>, ETHAddress |-> <<"eth">>]

PresentMarkers == {k \in 1..5 : MarkerOrder[k] \in DOMAIN Properties}

\* C6 amended: for a non-empty address property the result is the address
\* with the single currency of the first marker key present (in the order
\* BTC, BCH, LTC, ZEC, ETH) and no error, the patterns not being consulted;
\* only when no marker key is present is it the pattern detector's candidate
\* list and error for that address.
C6_DetectionPropagated ==
    (Classified /\ ~HasWalletProperty /\ "currency" \notin DOMAIN Properties
        /\ AddressKey \in DOMAIN Properties /\ Properties[AddressKey] # <<>>) =>
        IF PresentMarkers = {}
        THEN Propagates(Properties[AddressKey], get_currency(Properties[AddressKey]))
        ELSE \E k \in PresentMarkers :
               /\ \A j \in PresentMarkers : k <= j
               /\ Result = <<Properties[AddressKey],
                             <<MarkerCurrency[MarkerOrder[k]]>>, None>>

C6_Witness ==
    /\ Classified
    /\ ~HasWalletProperty /\ "currency" \notin DOMAIN Properties
    /\ AddressKey \in DOMAIN Properties /\ Properties[AddressKey] = MultiAddr
    /\ PresentMarkers = {}
    /\ Result = <<MultiAddr, << <<"btc">>, <<"bch">>, <<"ltc">> >>, None>>

\* ------------------------------------------------------ cluster queries
\* C7: a request is treated as a cluster query (classified through the
\* wallet/cluster branch, entity lookup issued) only if its identifier
\* parses as a non-negative integer; no entity lookup carries a negative id.
C7_ClusterIdNonNegative ==
    /\ (Classified /\ HasWalletProperty /\ error = None) =>
           ParseInt(address).ok /\ ParseInt(address).n >= 0
    /\ \A k \in 1..Len(lookups) :
           lookups[k].fn = "get_entity_details" => lookups[k].id >= 0

\* ------------------------------------------------------------ projector
RECURSIVE SumLen(_, _)
SumLen(f, S) ==
    IF S = {} THEN 0
    ELSE LET a == CHOOSE x \in S : TRUE IN Len(f[a]) + SumLen(f, S \ {a})

\* the number of tags a tag collection holds
TagCount(coll) ==
    IF coll.kind = "list" THEN Len(coll.items)
    ELSE SumLen(coll.attrs, DOMAIN coll.attrs)

Projection ==
    create_entity_with_details(<<api_result[1], api_result[2], (<<>>)>>,
                               currencies[i], query_type, response)

Added(r) == SubSeq(r.response.entities, Len(response.entities) + 1,
                   Len(r.response.entities))

\* C8: projecting an error-free lookup result for kind tags or entity_tags
\* (currency one of the five currency codes): a collection holding zero tags
\* adds no entity and yields (null, "No attribution tags found for this query
\* in <currency>"); otherwise exactly one owner entity per tag is appended
\* and the result is (null, empty error).
C8_OneEntityPerTag ==
    (pc = "dispatch" /\ api_result[3] = <<>>
        /\ query_type \in {<<"tags">>, <<"entity_tags">>}
        /\ currencies[i] \in CurrencyCodes) =>
        LET r == Projection
            n == TagCount(api_result[2])
        IN  /\ r.entity = NoneRec
            /\ SubSeq(r.response.entities, 1, Len(response.entities))
                   = response.entities
            /\ Len(Added(r)) = n
            /\ \A k \in 1..Len(Added(r)) :
                   Added(r)[k].type = <<"maltego.CryptocurrencyOwner">>
            /\ r.error = IF n = 0
                         THEN <<"No attribution tags found for this query in ">>
                                  \o currencies[i]
                         ELSE <<>>

\* ------------------------------------------------------ error classifier
Last(q) == q[Len(q)]

TimeoutNotice == "\nGraphSense server 504 error during "

NotFoundNotice == "\nNothing found in "

\* C9: the notice of set_maltego_transformation_error: a gateway-timeout
\* indicator in the error wins over a not-found indicator, a not-found
\* indicator over the generic form; exactly one message is added, tagged
\* partial; and for the same (currency, kind, identifier) the timeout and
\* the not-found message differ.
C9_NoticeByOrder ==
    [][(pc = "dispatch" /\ Len(errs') > 0 /\ Last(errs').cand = i) =>
        LET e == Last(errs').error
            m == Last(response'.messages)
            c == currencies[i]
        IN  /\ response'.messages = Append(response.messages, m)
            /\ m.type = UIM_PARTIAL
            /\ IF Contains(e, "504 Bad Gateway")
               THEN m.msg = <<TimeoutNotice>> \o query_type \o <<" for ">> \o c
                                \o <<" on ">> \o address \o <<"\n">>
               ELSE IF Contains(e, "(404)")
               THEN m.msg = <<NotFoundNotice>> \o c \o <<" for: ">> \o address
                                \o <<"\n">>
               ELSE m.msg = <<"Error (">> \o c \o <<"): ">> \o e
            /\ ErrorMessage(c, query_type, address, <<"504 Bad Gateway">>)
                   # ErrorMessage(c, query_type, address, <<"(404)">>)
      ]_vars

C9_Witness ==
    /\ pc = "done"
    /\ \E j \in 1..Len(errs), m \in 1..Len(notices) :
         /\ notices[m] = errs[j].cand
         /\ Contains(errs[j].error, "(404)")
         /\ Contains(errs[j].error, "504 Bad Gateway")
         /\ Head(response.messages[m].msg) = TimeoutNotice
         /\ response.messages[m].type = UIM_PARTIAL

\* ------------------------------------------------------ backend gateway
PrimaryOps == {"get_address", "get_entity"}

TagOps == {"list_tags_by_address", "list_address_tags_by_entity"}

Calls(ops) == Cardinality({k \in 1..Len(call.log) : call.log[k].op \in ops})

\* the lookup invocation of the current candidate has returned
Returned == pc = "dispatch"

\* C10 as stated: every invocation of a lookup issues exactly one
\* primary-object call and exactly one tag-collection call, releases the
\* connection it opened, and on a failed call returns error set, primary null.
C10_AsStated ==
    Returned =>
        /\ Calls(PrimaryOps) = 1
        /\ Calls(TagOps) = 1
        /\ call.conn # "open"
        /\ api_result[3] # <<>> => api_result[1] = NoneRec

\* C10 amended: an invocation issues at most one primary-object call and at
\* most one tag-collection call and repeats none; the primary call is issued
\* only once the client is created and the tag-collection call only after
\* the primary call succeeded; an invocation that returns without error has
\* issued exactly one of each; the connection it opened is released on every
\* exit path; a failure returns error set and primary null.
C10_SingleAttempt ==
    /\ Calls(PrimaryOps) <= 1
    /\ Calls(TagOps) <= 1
    /\ Len(call.log) = Calls(PrimaryOps) + Calls(TagOps)
    /\ Calls(PrimaryOps) = 1 => call.log[1].op \in PrimaryOps /\ call.conn # "none"
    /\ Calls(TagOps) = 1 => Calls(PrimaryOps) = 1 /\ call.obj # NoneRec
    /\ Returned =>
         /\ call.conn \in {"none", "closed"}
         /\ call.conn = "none" => call.log = <<>> /\ api_result[3] # <<>>
         /\ IF api_result[3] = <<>>
            THEN Calls(PrimaryOps) = 1 /\ Calls(TagOps) = 1
                     /\ api_result[1] = call.obj /\ api_result[1] # NoneRec
            ELSE api_result[1] = NoneRec

C10_Witness ==
    /\ Returned
    /\ call.fn = "get_entity_details"
    /\ Calls(PrimaryOps) = 1
    /\ Calls(TagOps) = 1
    /\ call.conn = "closed"
    /\ api_result[3] # <<>>
    /\ api_result[1] = NoneRec

\* ------------------------------------------------------- tagged overlay
\* the entity carries the "tagged" overlay
HasTaggedOverlay(entity) ==
    \E k \in 1..Len(entity.overlays) :
        /\ entity.overlays[k][2] = "NORTH_WEST"
        /\ entity.overlays[k][1] = <<"Businessman">>

\* the entity the projector builds for the current lookup result under kind
ProjectedAs(kind) ==
    create_entity_with_details(<<api_result[1], api_result[2], (<<>>)>>,
                               currencies[i], kind, response).entity

OtherBranch == IF transform = "ToDetails" THEN <<"cluster">> ELSE <<"details">>

====
